---- MODULE Spec2Model ----
(***************************************************************************)
(* Two components of the repository: the priority work queue of            *)
(* util/workqueue/priority_queue.go and the strategic merge patch engine   *)
(* (package strategicpatch).  Spec, SnapSpec, RedoSpec and FairSpec run    *)
(* the queue, PatchSpec runs the patch engine.                             *)
(*                                                                         *)
(* The queue.                                                              *)
(* Every method of PriorityType takes q.cond.L for its whole body, so one  *)
(* critical section is one action.  ShutDown and ShutDownWithDrain are     *)
(* sequences of critical sections (setDrain, shutdown, isProcessing,       *)
(* shouldDrain, waitForProcessing) and are modelled step by step.          *)
(* q.cond is a sync.Cond: Wait releases the lock and parks the goroutine   *)
(* in one atomic step, Signal unparks one parked goroutine (any of them),  *)
(* Broadcast unparks all, and Wait never returns spuriously.               *)
(***************************************************************************)
EXTENDS Integers, Sequences, FiniteSets, TLC

(* ---- bounds of the model ---- *)
NumItems == 2
NumConsumers == 2
NumDrainers == 2
NumShutters == 1
\* the maxPriority argument given to NewNamedPriority
MaxPriorityArg == 1

(* ---- program constants ---- *)
defaultMinPriority == 0

Items == 1..NumItems
nil == 0

Consumers == {<<"consumer", i>> : i \in 1..NumConsumers}
Drainers == {<<"drainer", i>> : i \in 1..NumDrainers}
Shutters == {<<"shutter", i>> : i \in 1..NumShutters}
Procs == Consumers \cup Drainers \cup Shutters

minPriority == defaultMinPriority
maxPriority == MaxPriorityArg
Levels == minPriority..maxPriority

\* GetPriorityFunc is caller code returning any int: the model lets each call
\* return any value from one below minPriority to one above maxPriority.
getPriorityFunc(item) == (minPriority - 1)..(maxPriority + 1)

\* the keys the map priorityQueue can get
Keys == (minPriority - 1)..(maxPriority + 1)

VARIABLES
    priorityQueue,  \* q.priorityQueue : map[int][]t
    dirty,          \* q.dirty
    processing,     \* q.processing
    shuttingDown,   \* q.shuttingDown
    drain,          \* q.drain
    waiters,        \* goroutines parked in q.cond.Wait()
    pc,             \* where each goroutine is
    held,           \* the item each consumer got from Get and has not yet Done
    added,          \* history: items ever passed to Add
    addedLive,      \* history: items passed to Add while shuttingDown was false
    bcastWoken,     \* history: consumers unparked by ShutDown's broadcast, still in Get
    sdAfter,        \* history: drainers that had started when a ShutDown was invoked
    existing,       \* history: per drainer, the items queued or in processing at its call
    redo,           \* history: per drainer and item added again while in processing
                    \* at its call, the Done calls still to come (2, 1 or 0)
    originalDoc,    \* patch engine: the decoded argument original (or left)
    modifiedDoc,    \* patch engine: the decoded argument modified (or right)
    currentDoc,     \* patch engine: the decoded argument current
    patchDoc,       \* patch engine: the patch, given or returned by a Create call
    resultDoc,      \* patch engine: what StrategicMergePatch or
                    \* MergingMapsHaveConflicts has returned
    rangeOrder,     \* patch engine: the order in which this run ranges over maps
    call            \* patch engine: the entry point called last

qvars == <<priorityQueue, dirty, processing>>
queueVars == <<priorityQueue, dirty, processing, shuttingDown, drain, waiters, pc, held,
               added, addedLive, bcastWoken, sdAfter, existing, redo>>
patchVars == <<originalDoc, modifiedDoc, currentDoc, patchDoc, resultDoc, rangeOrder, call>>
vars == <<queueVars, patchVars>>
hist == <<existing, redo>>

(* ---- helpers ---- *)
RECURSIVE SumLen(_, _)
SumLen(q, S) ==
    IF S = {} THEN 0
    ELSE LET i == CHOOSE j \in S : TRUE IN Len(q[i]) + SumLen(q, S \ {i})

Range(s) == {s[i] : i \in 1..Len(s)}

\* the items sitting in the buckets with the given keys
InBuckets(q, S) == UNION {Range(q[k]) : k \in S}

clipInt(v, min, max) ==
    IF v < min THEN min
    ELSE IF v > max THEN max
    ELSE v

lenNoLock == SumLen(priorityQueue, Levels)

\* sync.Cond: the sets of goroutines one call may unpark
CondSignal == IF waiters = {} THEN {{}} ELSE {{w} : w \in waiters}
CondBroadcast == {waiters}

\* where a goroutine continues when its cond.Wait() returns: a consumer
\* re-evaluates the loop of Get, a drainer the loop of ShutDownWithDrain
Resume(p) == IF p \in Consumers THEN "get" ELSE "isProcessing"

Wake(f, W) == [p \in Procs |-> IF p \in W THEN Resume(p) ELSE f[p]]

(***************************************************************************)
(* The strategic merge patch engine (package strategicpatch).              *)
(*                                                                         *)
(* A decoded JSON value (interface{}) is a record [t, v]: t is its dynamic *)
(* type and v its content.  Every function of the package is an operator   *)
(* that computes as the code computes; a returned error is the value       *)
(* Error(msg), a runtime panic the value Panic.  The entry points that     *)
(* take []byte decode their arguments with json.Unmarshal into the values  *)
(* below and encode the result; the operators work on the decoded values.  *)
(***************************************************************************)
Null == [t |-> "nil", v |-> 0]
Num(n) == [t |-> "float64", v |-> n]
String(s) == [t |-> "string", v |-> s]
Slice(s) == [t |-> "slice", v |-> s]
Map(f) == [t |-> "map", v |-> f]
Bool(b) == [t |-> "bool", v |-> b]
Error(msg) == [t |-> "error", v |-> msg]
Panic == [t |-> "panic", v |-> "index out of range"]
Failed(x) == x.t \in {"error", "panic"}

\* reflect.DeepEqual, and == on interface values holding scalars
RECURSIVE DeepEqual(_, _)
DeepEqual(x, y) ==
    /\ x.t = y.t
    /\ IF x.t = "map"
         THEN /\ DOMAIN x.v = DOMAIN y.v
              /\ \A k \in DOMAIN x.v : DeepEqual(x.v[k], y.v[k])
       ELSE IF x.t = "slice"
         THEN /\ Len(x.v) = Len(y.v)
              /\ \A i \in 1..Len(x.v) : DeepEqual(x.v[i], y.v[i])
       ELSE x.v = y.v

EmptyMap == Map([k \in {} |-> Null])
Has(m, k) == k \in DOMAIN m.v
Put(m, k, x) == Map([j \in DOMAIN m.v \cup {k} |-> IF j = k THEN x ELSE m.v[j]])
Delete(m, k) == Map([j \in DOMAIN m.v \ {k} |-> m.v[j]])

directiveMarker == "$patch"
deleteDirective == "delete"
replaceDirective == "replace"
mergeDirective == "merge"
deleteFromPrimitiveListDirectivePrefix == "$deleteFromPrimitiveList"

\* strings.SplitN(s, "/", 2): the position of the first "/", 0 if there is none
RECURSIVE SlashFrom(_, _)
SlashFrom(s, i) ==
    IF i > Len(s) THEN 0
    ELSE IF SubSeq(s, i, i) = "/" THEN i
    ELSE SlashFrom(s, i + 1)

\* fmt.Sprintf("%v", x) of a number, as its sequence of decimal digits
RECURSIVE Sprintf(_)
Sprintf(x) ==
    IF x.v < 10 THEN <<x.v>> ELSE Sprintf(Num(x.v \div 10)) \o <<x.v % 10>>

\* the order < of Go strings: bytewise lexicographic
RECURSIVE StringLess(_, _)
StringLess(a, b) ==
    IF b = <<>> THEN FALSE
    ELSE IF a = <<>> THEN TRUE
    ELSE IF a[1] # b[1] THEN a[1] < b[1]
    ELSE StringLess(Tail(a), Tail(b))

\* sort.StringsAreSorted([]string{a, b})
StringsAreSorted(a, b) == ~StringLess(b, a)

\* the string SortableSliceOfScalars and SortableSliceOfMaps compare by
SortString(x, k) == IF x.t = "map" THEN Sprintf(x.v[k]) ELSE Sprintf(x)

\* sort.Sort on a slice of fewer than 7 elements is an insertion sort; Less
\* is StringsAreSorted, so an element also moves before its equals
RECURSIVE insertionSortInner(_, _, _)
insertionSortInner(s, j, k) ==
    IF j > 1 /\ StringsAreSorted(SortString(s[j], k), SortString(s[j - 1], k))
      THEN insertionSortInner([s EXCEPT ![j] = s[j - 1], ![j - 1] = s[j]], j - 1, k)
      ELSE s

RECURSIVE insertionSort(_, _, _)
insertionSort(s, i, k) ==
    IF i > Len(s) THEN s ELSE insertionSort(insertionSortInner(s, i, k), i + 1, k)

sortScalars(s) == insertionSort(s, 2, "")
sortMapsBasedOnField(m, fieldName) == insertionSort(m, 2, fieldName)

\* the loops of uniqifyScalars on the array a of which the slice holds the
\* first n elements, i and j counted from 1: a duplicate at j is overwritten
\* by the last element and the slice is cut by one
RECURSIVE uniqifyLoops(_, _, _, _)
uniqifyLoops(a, n, i, j) ==
    IF i >= n THEN <<a, n>>
    ELSE IF j > n THEN uniqifyLoops(a, n, i + 1, i + 2)
    ELSE IF DeepEqual(a[i], a[j]) THEN uniqifyLoops([a EXCEPT ![j] = a[n]], n - 1, i, j)
    ELSE uniqifyLoops(a, n, i, j + 1)

uniqifyScalars(s) ==
    LET r == uniqifyLoops(s, Len(s), 1, 2) IN SubSeq(r[1], 1, r[2])
uniqifyAndSortScalars(s) == sortScalars(uniqifyScalars(s))

\* what uniqifyAndSortScalars(s) leaves in the array of s, which the caller's
\* slice still spans in full
uniqifyAndSortScalarsInPlace(s) ==
    LET r == uniqifyLoops(s, Len(s), 1, 2)
    IN  sortScalars(SubSeq(r[1], 1, r[2])) \o SubSeq(r[1], r[2] + 1, Len(s))

\* sliceElementType(slices...): the type all elements share, or an error
sliceElementType(all) ==
    IF all = <<>> THEN Error("no elements in any of the given slices")
    ELSE IF all[1].t = "slice" THEN Error("lists of lists are not supported")
    ELSE IF \E i \in 1..Len(all) : all[i].t # all[1].t
      THEN Error("list element types are not identical")
    ELSE String(all[1].t)

(* ---- the schema (dataStruct) and forkedjson.LookupPatchMetadata ---- *)
\* a struct field: its Go type and its patchStrategy and patchMergeKey tags
Field(type, strategy, key) == [type |-> type, strategy |-> strategy, mergeKey |-> key]

\* the struct types of the documents: Doc is the dataStruct handed to the
\* entry points, Container the struct of its nested objects
Structs ==
    [Doc |-> [replicas |-> Field("float64", "", ""),
              paused |-> Field("float64", "", ""),
              finalizers |-> Field("[]float64", "merge", ""),
              args |-> Field("[]float64", "", ""),
              containers |-> Field("[]Container", "merge", "name"),
              template |-> Field("Container", "", ""),
              selector |-> Field("Container", "replace", "")],
     Container |-> [name |-> Field("float64", "", ""),
                    image |-> Field("float64", "", "")]]

\* reflect.Type.Elem() of a slice type
Elem(type) ==
    IF type = "[]Container" THEN "Container"
    ELSE IF type = "[]float64" THEN "float64"
    ELSE type

\* LookupPatchMetadata(t, jsonField): the field's metadata, or an error when t
\* has no field of that name
LookupPatchMetadata(t, jsonField) ==
    IF t \in DOMAIN Structs /\ jsonField \in DOMAIN Structs[t]
      THEN [err |-> FALSE, fieldType |-> Structs[t][jsonField].type,
            fieldPatchStrategy |-> Structs[t][jsonField].strategy,
            fieldPatchMergeKey |-> Structs[t][jsonField].mergeKey]
      ELSE [err |-> TRUE, fieldType |-> "", fieldPatchStrategy |-> "",
            fieldPatchMergeKey |-> ""]

(* ---- diffMaps, diffLists ---- *)
\* the first failure among the values of a function, Null if none failed
FirstFailure(f) ==
    IF \E k \in DOMAIN f : Failed(f[k])
      THEN f[CHOOSE k \in DOMAIN f : Failed(f[k])]
      ELSE Null

\* one patch map from the entries emitted for the single keys
Union(f) ==
    Map([j \in UNION {DOMAIN f[k].v : k \in DOMAIN f} |->
           f[CHOOSE k \in DOMAIN f : j \in DOMAIN f[k].v].v[j]])

One(k, x) == Map([j \in {k} |-> x])

\* the second phase of diffListsOfScalars: the two-pointer walk over the
\* sorted slices, i and j counted from 1
RECURSIVE scalarsWalk(_, _, _, _, _, _, _, _)
scalarsWalk(originalScalars, modifiedScalars, i, j, addList, deletionList, ignoreChangesAndAdditions, ignoreDeletions) ==
    LET originalInBounds == i <= Len(originalScalars)
        modifiedInBounds == j <= Len(modifiedScalars)
        bothInBounds == originalInBounds /\ modifiedInBounds
        originalString == Sprintf(originalScalars[i])
        modifiedString == Sprintf(modifiedScalars[j])
    IN  IF ~(originalInBounds \/ modifiedInBounds)
          THEN <<addList, deletionList>>
        ELSE IF bothInBounds /\ originalString = modifiedString
          THEN scalarsWalk(originalScalars, modifiedScalars, i + 1, j + 1, addList,
                           deletionList, ignoreChangesAndAdditions, ignoreDeletions)
        ELSE IF ~originalInBounds
                  \/ (bothInBounds /\ StringLess(modifiedString, originalString))
          THEN scalarsWalk(originalScalars, modifiedScalars, i, j + 1,
                           IF ignoreChangesAndAdditions THEN addList
                           ELSE Append(addList, modifiedScalars[j]),
                           deletionList, ignoreChangesAndAdditions, ignoreDeletions)
        ELSE scalarsWalk(originalScalars, modifiedScalars, i + 1, j, addList,
                         IF ignoreDeletions THEN deletionList
                         ELSE Append(deletionList, originalScalars[i]),
                         ignoreChangesAndAdditions, ignoreDeletions)

\* diffListsOfScalars returns <<addList, deletionList>>
diffListsOfScalars(original, modified, ignoreChangesAndAdditions, ignoreDeletions) ==
    scalarsWalk(sortScalars(original), sortScalars(modified), 1, 1, <<>>, <<>>,
                ignoreChangesAndAdditions, ignoreDeletions)

\* sortMergeListsByNameArray(s, elemType, mergeKey, false)
sortMergeListsByNameArray(s, mergeKey) ==
    IF s = <<>> THEN Slice(s)
    ELSE IF Failed(sliceElementType(s)) THEN sliceElementType(s)
    ELSE IF sliceElementType(s).v # "map" THEN Slice(uniqifyAndSortScalars(s))
    ELSE Slice(sortMapsBasedOnField(s, mergeKey))

DeleteElement(mergeKey, value) ==
    Map([j \in {mergeKey, directiveMarker} |->
           IF j = mergeKey THEN value ELSE String(deleteDirective)])

RECURSIVE DeleteElements(_, _, _)
DeleteElements(s, i, mergeKey) ==
    IF i > Len(s) THEN <<>>
    ELSE <<DeleteElement(mergeKey, s[i].v[mergeKey])>> \o DeleteElements(s, i + 1, mergeKey)

RECURSIVE diffMaps(_, _, _, _, _)
RECURSIVE mapsWalk(_, _, _, _, _, _, _, _, _)

\* the loops of diffListsOfMaps over the sorted slices, i (originalIndex) and
\* j (modifiedIndex) counted from 1
mapsWalk(originalSorted, modifiedSorted, i, j, patchList, t, mergeKey, ignoreChangesAndAdditions, ignoreDeletions) ==
    IF j <= Len(modifiedSorted) /\ ~Has(modifiedSorted[j], mergeKey)
      THEN Error("map does not contain declared merge key")
    ELSE IF j <= Len(modifiedSorted) /\ i <= Len(originalSorted)
              /\ ~Has(originalSorted[i], mergeKey)
      THEN Error("map does not contain declared merge key")
    ELSE IF j > Len(modifiedSorted) \/ i > Len(originalSorted)
      THEN \* the loops are left: the rest of original is deleted, the rest of
           \* modified is added
           IF ~ignoreDeletions /\ \E n \in i..Len(originalSorted) :
                                    ~Has(originalSorted[n], mergeKey)
             THEN Error("map does not contain declared merge key")
           ELSE
           Slice(patchList
                   \o (IF ignoreDeletions THEN <<>>
                       ELSE DeleteElements(originalSorted, i, mergeKey))
                   \o (IF ignoreChangesAndAdditions THEN <<>>
                       ELSE SubSeq(modifiedSorted, j, Len(modifiedSorted))))
    ELSE LET originalMap == originalSorted[i]
             modifiedMap == modifiedSorted[j]
             originalString == Sprintf(originalMap.v[mergeKey])
             modifiedString == Sprintf(modifiedMap.v[mergeKey])
             patchValue == diffMaps(originalMap, modifiedMap, t,
                                    ignoreChangesAndAdditions, ignoreDeletions)
         IN  IF originalString = modifiedString
               THEN IF Failed(patchValue) THEN patchValue
                    ELSE mapsWalk(originalSorted, modifiedSorted, i + 1, j + 1,
                                  IF DOMAIN patchValue.v # {}
                                    THEN Append(patchList,
                                                Put(patchValue, mergeKey,
                                                    modifiedMap.v[mergeKey]))
                                    ELSE patchList,
                                  t, mergeKey, ignoreChangesAndAdditions, ignoreDeletions)
             ELSE IF StringLess(modifiedString, originalString)
               THEN mapsWalk(originalSorted, modifiedSorted, i, j + 1,
                             IF ignoreChangesAndAdditions THEN patchList
                             ELSE Append(patchList, modifiedMap),
                             t, mergeKey, ignoreChangesAndAdditions, ignoreDeletions)
             ELSE mapsWalk(originalSorted, modifiedSorted, i + 1, j,
                           IF ignoreDeletions THEN patchList
                           ELSE Append(patchList,
                                       DeleteElement(mergeKey, originalMap.v[mergeKey])),
                           t, mergeKey, ignoreChangesAndAdditions, ignoreDeletions)

diffListsOfMaps(original, modified, t, mergeKey, ignoreChangesAndAdditions, ignoreDeletions) ==
    LET originalSorted == sortMergeListsByNameArray(original, mergeKey)
        modifiedSorted == sortMergeListsByNameArray(modified, mergeKey)
    IN  IF Failed(originalSorted) THEN originalSorted
        ELSE IF Failed(modifiedSorted) THEN modifiedSorted
        ELSE mapsWalk(originalSorted.v, modifiedSorted.v, 1, 1, <<>>, t, mergeKey,
                      ignoreChangesAndAdditions, ignoreDeletions)

\* a diffLists that takes every element of modified for an addition
diffListsAddsAll(original, modified, t, mergeKey, ignoreChangesAndAdditions, ignoreDeletions) ==
    Slice(<<modified, <<>>>>)

\* diffLists returns Slice(<<addList, deletionList>>) or an error
diffLists(original, modified, t, mergeKey, ignoreChangesAndAdditions, ignoreDeletions) ==
    IF Len(original) = 0
      THEN IF Len(modified) = 0 \/ ignoreChangesAndAdditions
             THEN Slice(<<<<>>, <<>>>>)
             ELSE Slice(<<modified, <<>>>>)
    ELSE LET elementType == sliceElementType(original \o modified)
             patchList == diffListsOfMaps(original, modified, t, mergeKey,
                                          ignoreChangesAndAdditions, ignoreDeletions)
         IN  IF Failed(elementType) THEN elementType
             ELSE IF elementType.v = "map"
               THEN IF Failed(patchList) THEN patchList
                    ELSE Slice(<<patchList.v, <<>>>>)
             ELSE Slice(diffListsOfScalars(original, modified,
                                           ignoreChangesAndAdditions, ignoreDeletions))

\* what one iteration of the first loop of diffMaps puts into the patch
diffMapsKey(original, modified, t, key, ignoreChangesAndAdditions, ignoreDeletions) ==
    LET modifiedValue == modified.v[key]
        originalValue == original.v[key]
        meta == LookupPatchMetadata(t, key)
        addition == IF ignoreChangesAndAdditions THEN EmptyMap
                    ELSE One(key, modifiedValue)
        patchValue == diffMaps(originalValue, modifiedValue, meta.fieldType,
                               ignoreChangesAndAdditions, ignoreDeletions)
        lists == diffLists(originalValue.v, modifiedValue.v, Elem(meta.fieldType),
                           meta.fieldPatchMergeKey, ignoreChangesAndAdditions,
                           ignoreDeletions)
        parallelDeletionListKey == deleteFromPrimitiveListDirectivePrefix \o "/" \o key
    IN  IF ~Has(original, key) THEN addition
        ELSE IF key = directiveMarker
          THEN IF originalValue.t # "string" \/ modifiedValue.t # "string"
                 THEN Error("invalid value for special key")
               ELSE IF modifiedValue.v # originalValue.v
                 THEN One(directiveMarker, modifiedValue)
               ELSE EmptyMap
        ELSE IF originalValue.t # modifiedValue.t THEN addition
        ELSE IF originalValue.t = "map"
          THEN IF meta.err
                 THEN IF DeepEqual(originalValue, modifiedValue) THEN EmptyMap
                      ELSE Error("unable to find api field in struct")
               ELSE IF meta.fieldPatchStrategy = replaceDirective THEN addition
               ELSE IF Failed(patchValue) THEN patchValue
               ELSE IF DOMAIN patchValue.v # {} THEN One(key, patchValue)
               ELSE EmptyMap
        ELSE IF originalValue.t = "slice" /\ meta.err
          THEN IF DeepEqual(originalValue, modifiedValue) THEN EmptyMap
               ELSE Error("unable to find api field in struct")
        ELSE IF originalValue.t = "slice" /\ meta.fieldPatchStrategy = mergeDirective
          THEN IF Failed(lists) THEN lists
               ELSE Union([n \in {1, 2} |->
                      IF lists.v[n] = <<>> THEN EmptyMap
                      ELSE One(IF n = 1 THEN key ELSE parallelDeletionListKey,
                               Slice(lists.v[n]))])
        ELSE IF ~ignoreChangesAndAdditions /\ ~DeepEqual(originalValue, modifiedValue)
          THEN One(key, modifiedValue)
        ELSE EmptyMap

diffMaps(original, modified, t, ignoreChangesAndAdditions, ignoreDeletions) ==
    LET emitted == [key \in DOMAIN modified.v |->
                      diffMapsKey(original, modified, t, key,
                                  ignoreChangesAndAdditions, ignoreDeletions)]
        deleted == [key \in DOMAIN original.v \ DOMAIN modified.v |-> One(key, Null)]
    IN  IF Failed(FirstFailure(emitted)) THEN FirstFailure(emitted)
        ELSE Union([n \in {1, 2} |->
               IF n = 1 THEN Union(emitted)
               ELSE IF ignoreDeletions THEN EmptyMap ELSE Union(deleted)])

\* CreateTwoWayMergeMapPatch without precondition functions, and
\* CreateTwoWayMergePatch on the decoded documents
CreateTwoWayMergeMapPatch(original, modified) ==
    diffMaps(original, modified, "Doc", FALSE, FALSE)
CreateTwoWayMergePatch(original, modified) == CreateTwoWayMergeMapPatch(original, modified)

(* ---- mergeMap, mergeSlice ---- *)
\* the keys the documents and patches use, in one order a range over a Go map
\* may take; rangeOrder says whether the maps are ranged over in this order
\* or in the opposite one
KeyOrder ==
    <<"$patch", "name", "image", "replicas", "paused", "finalizers",
      "$deleteFromPrimitiveList/finalizers", "args", "$deleteFromPrimitiveList/args",
      "containers", "template", "selector">>

Reverse(s) == [i \in 1..Len(s) |-> s[Len(s) + 1 - i]]

RECURSIVE SetToSeq(_)
SetToSeq(S) ==
    IF S = {} THEN <<>>
    ELSE LET k == CHOOSE j \in S : TRUE IN <<k>> \o SetToSeq(S \ {k})

\* the keys of a map in the order a range statement visits them
RangeOver(m) ==
    LET order == IF rangeOrder THEN KeyOrder ELSE Reverse(KeyOrder)
        known == SelectSeq(order, LAMBDA k : k \in DOMAIN m.v)
    IN  known \o SetToSeq(DOMAIN m.v \ Range(KeyOrder))

\* the walk of deleteFromSlice over the sorted slices, from index 1
RECURSIVE deleteWalk(_, _, _, _, _)
deleteWalk(currentScalars, toDeleteScalars, i, j, mergedList) ==
    IF ~(i <= Len(currentScalars) /\ j <= Len(toDeleteScalars))
      THEN mergedList \o SubSeq(currentScalars, i, Len(currentScalars))
    ELSE LET originalString == Sprintf(currentScalars[i])
             modifiedString == Sprintf(toDeleteScalars[j])
         IN  IF originalString = modifiedString
               THEN deleteWalk(currentScalars, toDeleteScalars, i + 1, j, mergedList)
             ELSE IF StringLess(modifiedString, originalString)
               THEN deleteWalk(currentScalars, toDeleteScalars, i, j + 1, mergedList)
             ELSE deleteWalk(currentScalars, toDeleteScalars, i + 1, j,
                             Append(mergedList, currentScalars[i]))

deleteFromSlice(current, toDelete) ==
    deleteWalk(uniqifyAndSortScalars(current), uniqifyAndSortScalars(toDelete), 1, 1, <<>>)

\* findMapInSliceBasedOnKeyValue: the index of the first map of m whose key
\* has the value, 0 if there is none
findMapInSliceBasedOnKeyValue(m, key, value) ==
    IF \E i \in 1..Len(m) : Has(m[i], key) /\ DeepEqual(m[i].v[key], value)
      THEN CHOOSE i \in 1..Len(m) :
             /\ Has(m[i], key) /\ DeepEqual(m[i].v[key], value)
             /\ \A j \in 1..(i - 1) : ~(Has(m[j], key) /\ DeepEqual(m[j].v[key], value))
      ELSE 0

\* the inner loop of mergeSlice that deletes all entries with the merge value
RECURSIVE deleteMatching(_, _, _)
deleteMatching(original, mergeKey, mergeValue) ==
    LET originalKey == findMapInSliceBasedOnKeyValue(original, mergeKey, mergeValue)
    IN  IF originalKey = 0 THEN original
        ELSE deleteMatching(SubSeq(original, 1, originalKey - 1)
                              \o SubSeq(original, originalKey + 1, Len(original)),
                            mergeKey, mergeValue)

\* the first loop of mergeSlice: the $patch elements of the patch are applied
\* and dropped; the result is <<original, patchWithoutSpecialElements, replace>>
RECURSIVE specialElements(_, _, _, _, _, _)
specialElements(original, patchList, i, mergeKey, patchWithoutSpecialElements, replace) ==
    IF i > Len(patchList)
      THEN Slice(<<original, patchWithoutSpecialElements, replace>>)
    ELSE LET typedV == patchList[i]
             patchType == typedV.v[directiveMarker]
         IN  IF ~Has(typedV, directiveMarker)
               THEN specialElements(original, patchList, i + 1, mergeKey,
                                    Append(patchWithoutSpecialElements, typedV), replace)
             ELSE IF DeepEqual(patchType, String(deleteDirective))
               THEN IF Has(typedV, mergeKey)
                      THEN specialElements(
                             deleteMatching(original, mergeKey, typedV.v[mergeKey]),
                             patchList, i + 1, mergeKey, patchWithoutSpecialElements,
                             replace)
                      ELSE Error("delete patch type with no merge key defined")
             ELSE IF DeepEqual(patchType, String(replaceDirective))
               THEN specialElements(original, patchList, i + 1, mergeKey,
                                    patchWithoutSpecialElements, TRUE)
             ELSE IF DeepEqual(patchType, String(mergeDirective))
               THEN Error("merging lists cannot yet be specified in the patch")
             ELSE Error("unknown patch type")

RECURSIVE mergeMap(_, _, _, _, _)
RECURSIVE mergeElements(_, _, _, _, _, _, _)

\* the second loop of mergeSlice: every patch element is merged into the
\* element of original with its merge value, or appended
mergeElements(original, patchList, i, elemType, mergeKey, mergeDeleteList, ignoreUnmatchedNulls) ==
    IF i > Len(patchList) THEN Slice(original)
    ELSE LET typedV == patchList[i]
             originalKey == findMapInSliceBasedOnKeyValue(original, mergeKey,
                                                          typedV.v[mergeKey])
             mergedMaps == mergeMap(original[originalKey], typedV, elemType,
                                    mergeDeleteList, ignoreUnmatchedNulls)
         IN  IF ~Has(typedV, mergeKey)
               THEN Error("map does not contain declared merge key")
             ELSE IF originalKey = 0
               THEN mergeElements(Append(original, typedV), patchList, i + 1, elemType,
                                  mergeKey, mergeDeleteList, ignoreUnmatchedNulls)
             ELSE IF Failed(mergedMaps) THEN mergedMaps
             ELSE mergeElements([original EXCEPT ![originalKey] = mergedMaps],
                                patchList, i + 1, elemType, mergeKey, mergeDeleteList,
                                ignoreUnmatchedNulls)

mergeSlice(original, patchList, elemType, mergeKey, mergeDeleteList, isDeleteList, ignoreUnmatchedNulls) ==
    LET t == sliceElementType(original \o patchList)
        special == specialElements(original, patchList, 1, mergeKey, <<>>, FALSE)
    IN  IF Len(original) = 0 /\ Len(patchList) = 0 THEN Slice(original)
        ELSE IF Failed(t) THEN t
        ELSE IF t.v # "map"
          THEN IF mergeDeleteList /\ isDeleteList
                 THEN Slice(deleteFromSlice(original, patchList))
                 ELSE Slice(uniqifyScalars(original \o patchList))
        ELSE IF mergeKey = "" THEN Error("cannot merge lists without merge key")
        ELSE IF Failed(special) THEN special
        ELSE IF special.v[3] THEN Slice(special.v[2])
        ELSE mergeElements(special.v[1], special.v[2], 1, elemType, mergeKey,
                           mergeDeleteList, ignoreUnmatchedNulls)

\* a merge step that stores the patch value under its key whatever it is
mergeMapKeyStoresValue(original, patchMap, k0, t, mergeDeleteList, ignoreUnmatchedNulls) ==
    Put(original, k0, patchMap.v[k0])

\* one iteration of the loop of mergeMap, for the patch key k0
mergeMapKey(original, patchMap, k0, t, mergeDeleteList, ignoreUnmatchedNulls) ==
    LET patchV == patchMap.v[k0]
        prefix == deleteFromPrimitiveListDirectivePrefix
        foundParallelListPrefix ==
            Len(k0) >= Len(prefix) /\ SubSeq(k0, 1, Len(prefix)) = prefix
        slash == SlashFrom(k0, 1)
        isDeleteList == foundParallelListPrefix
        k == IF foundParallelListPrefix THEN SubSeq(k0, slash + 1, Len(k0)) ELSE k0
        kept == IF patchV.t = "nil" THEN Delete(original, k) ELSE original
        meta == LookupPatchMetadata(t, k)
        mergedMap == mergeMap(kept.v[k], patchV, meta.fieldType, mergeDeleteList,
                              ignoreUnmatchedNulls)
        mergedSlice == mergeSlice(kept.v[k].v, patchV.v, Elem(meta.fieldType),
                                  meta.fieldPatchMergeKey, mergeDeleteList,
                                  isDeleteList, ignoreUnmatchedNulls)
    IN  IF foundParallelListPrefix /\ ~mergeDeleteList THEN Put(original, k0, patchV)
        ELSE IF foundParallelListPrefix /\ slash = 0
          THEN Error("bad patch format for primitive list")
        ELSE IF patchV.t = "nil" /\ ignoreUnmatchedNulls THEN kept
        ELSE IF ~Has(kept, k) THEN Put(kept, k, patchV)
        ELSE IF kept.v[k].t # patchV.t THEN Put(kept, k, patchV)
        ELSE IF meta.err THEN Error("unable to find api field in struct")
        ELSE IF patchV.t = "map" /\ meta.fieldPatchStrategy # replaceDirective
          THEN IF Failed(mergedMap) THEN mergedMap ELSE Put(kept, k, mergedMap)
        ELSE IF patchV.t = "slice" /\ meta.fieldPatchStrategy = mergeDirective
          THEN IF Failed(mergedSlice) THEN mergedSlice ELSE Put(kept, k, mergedSlice)
        ELSE Put(kept, k, patchV)

RECURSIVE mergeMapRange(_, _, _, _, _, _)
mergeMapRange(original, patchMap, keys, t, mergeDeleteList, ignoreUnmatchedNulls) ==
    IF keys = <<>> THEN original
    ELSE LET merged == mergeMapKey(original, patchMap, Head(keys), t, mergeDeleteList,
                                   ignoreUnmatchedNulls)
         IN  IF Failed(merged) THEN merged
             ELSE mergeMapRange(merged, patchMap, Tail(keys), t, mergeDeleteList,
                                ignoreUnmatchedNulls)

mergeMap(original, patchMap, t, mergeDeleteList, ignoreUnmatchedNulls) ==
    IF Has(patchMap, directiveMarker)
      THEN IF DeepEqual(patchMap.v[directiveMarker], String(replaceDirective))
             THEN Delete(patchMap, directiveMarker)
           ELSE IF DeepEqual(patchMap.v[directiveMarker], String(deleteDirective))
             THEN EmptyMap
           ELSE Error("unknown patch type")
      ELSE mergeMapRange(original, patchMap, RangeOver(patchMap), t, mergeDeleteList,
                         ignoreUnmatchedNulls)

\* StrategicMergeMapPatch, and StrategicMergePatch on the decoded documents
StrategicMergeMapPatch(original, patchMap) == mergeMap(original, patchMap, "Doc", TRUE, TRUE)
StrategicMergePatch(original, patchMap) == StrategicMergeMapPatch(original, patchMap)

(* ---- MergingMapsHaveConflicts ---- *)
\* a conflict detection that finds no conflict
fieldsNeverConflict(left, right, fieldType, fieldPatchStrategy, fieldPatchMergeKey) ==
    Bool(FALSE)

RECURSIVE mergingMapFieldsHaveConflicts(_, _, _, _, _)

\* the loop of mapsHaveConflicts and of mapsOfMapsHaveConflicts over the keys
\* of typedLeft: the first result that is not (false, nil) is returned
RECURSIVE conflictsRange(_, _, _, _, _)
conflictsRange(typedLeft, typedRight, keys, structType, ofMaps) ==
    IF keys = <<>> THEN Bool(FALSE)
    ELSE LET key == Head(keys)
             meta == LookupPatchMetadata(structType, key)
             hasConflicts ==
                 IF ofMaps
                   THEN mergingMapFieldsHaveConflicts(typedLeft.v[key], typedRight.v[key],
                                                      structType, "", "")
                 ELSE IF meta.err THEN Error("unable to find api field in struct")
                 ELSE mergingMapFieldsHaveConflicts(typedLeft.v[key], typedRight.v[key],
                                                    meta.fieldType,
                                                    meta.fieldPatchStrategy,
                                                    meta.fieldPatchMergeKey)
         IN  IF (~ofMaps /\ key = directiveMarker) \/ ~Has(typedRight, key)
               THEN conflictsRange(typedLeft, typedRight, Tail(keys), structType, ofMaps)
             ELSE IF (Failed(hasConflicts) \/ hasConflicts.v) THEN hasConflicts
             ELSE conflictsRange(typedLeft, typedRight, Tail(keys), structType, ofMaps)

mapsHaveConflicts(typedLeft, typedRight, structType) ==
    conflictsRange(typedLeft, typedRight, RangeOver(typedLeft), structType, FALSE)

\* sliceOfMapsToMapOfMaps: a later element replaces an earlier one with the
\* same merge value; the map is keyed by the merge value, which determines
\* the key fmt.Sprintf("%s", mergeValue)
sliceOfMapsToMapOfMaps(slice, mergeKey) ==
    IF \E i \in 1..Len(slice) : ~Has(slice[i], mergeKey)
      THEN Error("cannot find merge key in merging list element")
      ELSE Map([x \in {slice[i].v[mergeKey] : i \in 1..Len(slice)} |->
                  slice[CHOOSE i \in 1..Len(slice) :
                          /\ slice[i].v[mergeKey] = x
                          /\ \A j \in (i + 1)..Len(slice) :
                               slice[j].v[mergeKey] # x]])

mapsOfMapsHaveConflicts(typedLeft, typedRight, structType) ==
    LET sorted == sortScalars(SetToSeq(DOMAIN typedLeft.v))
    IN  conflictsRange(typedLeft, typedRight,
                       IF rangeOrder THEN sorted ELSE Reverse(sorted), structType, TRUE)

\* the last loop of slicesHaveConflicts, which indexes typedRight by the
\* indices of typedLeft
RECURSIVE elementsHaveConflicts(_, _, _, _)
elementsHaveConflicts(typedLeft, typedRight, i, valueType) ==
    IF i > Len(typedLeft) THEN Bool(FALSE)
    ELSE IF i > Len(typedRight) THEN Panic
    ELSE LET hasConflicts == mergingMapFieldsHaveConflicts(typedLeft[i], typedRight[i],
                                                           valueType, "", "")
         IN  IF (Failed(hasConflicts) \/ hasConflicts.v) THEN hasConflicts
             ELSE elementsHaveConflicts(typedLeft, typedRight, i + 1, valueType)

slicesHaveConflicts(typedLeft, typedRight, fieldType, fieldPatchStrategy, fieldPatchMergeKey) ==
    LET elementType == sliceElementType(typedLeft \o typedRight)
        valueType == Elem(fieldType)
        leftMap == sliceOfMapsToMapOfMaps(typedLeft, fieldPatchMergeKey)
        rightMap == sliceOfMapsToMapOfMaps(typedRight, fieldPatchMergeKey)
    IN  IF Failed(elementType) THEN elementType
        ELSE IF fieldPatchStrategy = mergeDirective
          THEN IF elementType.v # "map" THEN Bool(FALSE)
               ELSE IF Failed(leftMap) THEN leftMap
               ELSE IF Failed(rightMap) THEN rightMap
               ELSE mapsOfMapsHaveConflicts(leftMap, rightMap, valueType)
        ELSE IF Len(typedLeft) # Len(typedRight) THEN Bool(TRUE)
        ELSE IF elementType.v # "map"
          THEN elementsHaveConflicts(uniqifyAndSortScalars(typedLeft),
                                     uniqifyAndSortScalars(typedRight), 1, valueType)
        ELSE elementsHaveConflicts(typedLeft, typedRight, 1, valueType)

mergingMapFieldsHaveConflicts(left, right, fieldType, fieldPatchStrategy, fieldPatchMergeKey) ==
    IF left.t = "map"
      THEN IF right.t # "map" THEN Bool(TRUE)
           ELSE IF Has(left, directiveMarker) # Has(right, directiveMarker)
             THEN Bool(TRUE)
           ELSE IF Has(left, directiveMarker)
                     /\ ~DeepEqual(left.v[directiveMarker],
                                   right.v[directiveMarker])
             THEN Bool(TRUE)
           ELSE IF fieldPatchStrategy = replaceDirective THEN Bool(FALSE)
           ELSE mapsHaveConflicts(left, right, fieldType)
    ELSE IF left.t = "slice"
      THEN IF right.t # "slice" THEN Bool(TRUE)
           ELSE slicesHaveConflicts(left.v, right.v, fieldType, fieldPatchStrategy,
                                    fieldPatchMergeKey)
    ELSE Bool(~DeepEqual(left, right))

MergingMapsHaveConflicts(left, right) ==
    mergingMapFieldsHaveConflicts(left, right, "Doc", "", "")

(* ---- CreateThreeWayMergePatch ---- *)
\* the patch map after MergingMapsHaveConflicts(patchMap, changedMap) found no
\* conflict: slicesHaveConflicts has uniqified and sorted, in their arrays, the
\* slices of scalars without merge strategy that both maps have in common
AfterConflictCheck(patchMap, changedMap) ==
    Map([k \in DOMAIN patchMap.v |->
           IF /\ Has(changedMap, k)
              /\ patchMap.v[k].t = "slice"
              /\ changedMap.v[k].t = "slice"
              /\ LookupPatchMetadata("Doc", k).fieldPatchStrategy # mergeDirective
              /\ Len(patchMap.v[k].v) = Len(changedMap.v[k].v)
              /\ sliceElementType(patchMap.v[k].v \o changedMap.v[k].v).v # "map"
             THEN Slice(uniqifyAndSortScalarsInPlace(patchMap.v[k].v))
             ELSE patchMap.v[k]])

\* the document modified after diffMaps(original, modified, ...): diffLists
\* has sorted, in their arrays, the merge lists of scalars it has compared
modifiedSortedBy(original, modified) ==
    Map([k \in DOMAIN modified.v |->
           IF /\ Has(original, k)
              /\ k # directiveMarker
              /\ original.v[k].t = "slice"
              /\ modified.v[k].t = "slice"
              /\ LookupPatchMetadata("Doc", k).fieldPatchStrategy = mergeDirective
              /\ Len(original.v[k].v) # 0
              /\ ~Failed(sliceElementType(original.v[k].v \o modified.v[k].v))
              /\ sliceElementType(original.v[k].v \o modified.v[k].v).v # "map"
             THEN Slice(sortScalars(modified.v[k].v))
             ELSE modified.v[k]])

\* the document original after diffMaps(original, modified, ...): diffLists
\* has sorted, in their arrays, the merge lists of scalars it has compared
originalSortedBy(original, modified) ==
    Map([k \in DOMAIN original.v |->
           IF /\ Has(modified, k)
              /\ k # directiveMarker
              /\ original.v[k].t = "slice"
              /\ modified.v[k].t = "slice"
              /\ LookupPatchMetadata("Doc", k).fieldPatchStrategy = mergeDirective
              /\ Len(original.v[k].v) # 0
              /\ ~Failed(sliceElementType(original.v[k].v \o modified.v[k].v))
              /\ sliceElementType(original.v[k].v \o modified.v[k].v).v # "map"
             THEN Slice(sortScalars(original.v[k].v))
             ELSE original.v[k]])

\* a delta that is left out of the patch
deltaLeftOut(deltaMap, original, modified, current) == EmptyMap

\* the patch deltaMap when deletionsMap has been computed: a slice it took
\* over from modifiedMap is the slice the second diffMaps has sorted
deltaAfterDeletions(deltaMap, original, modified, current) ==
    LET modifiedMap == modifiedSortedBy(original, modifiedSortedBy(current, modified))
    IN  Map([k \in DOMAIN deltaMap.v |->
               IF Has(modified, k) /\ DeepEqual(deltaMap.v[k], modified.v[k])
                 THEN modifiedMap.v[k]
                 ELSE deltaMap.v[k]])

\* the end of CreateThreeWayMergePatch with overwrite=false: the conflict
\* error, or the patch as the conflict check has left it
patchUnlessConflict(patchMap, changedMap, hasConflicts) ==
    IF Failed(hasConflicts) THEN hasConflicts
    ELSE IF hasConflicts.v THEN Error("conflict")
    ELSE AfterConflictCheck(patchMap, changedMap)

\* hasConflicts, err := MergingMapsHaveConflicts(patchMap, changedMap, dataStruct)
conflictsWithChanges(patchMap, changedMap) ==
    IF Failed(changedMap) THEN changedMap
    ELSE patchUnlessConflict(patchMap, changedMap,
                             MergingMapsHaveConflicts(patchMap, changedMap))

\* if !overwrite: changedMap, err := diffMaps(originalMap, currentMap, t, false, false)
checkForConflicts(patchMap, original, current, overwrite) ==
    IF Failed(patchMap) THEN patchMap
    ELSE IF overwrite THEN patchMap
    ELSE conflictsWithChanges(patchMap, diffMaps(original, current, "Doc", FALSE, FALSE))

\* patchMap, err := mergeMap(deletionsMap, deltaMap, t, false, false)
mergeDeltaIntoDeletions(deltaMap, deletionsMap, original, modified, current, overwrite) ==
    IF Failed(deltaMap) THEN deltaMap
    ELSE IF Failed(deletionsMap) THEN deletionsMap
    ELSE checkForConflicts(mergeMap(deletionsMap,
                                    deltaAfterDeletions(deltaMap, original, modified,
                                                        current),
                                    "Doc", FALSE, FALSE),
                           original, current, overwrite)

\* CreateThreeWayMergePatch on the decoded documents, without precondition
\* functions; the conflict error is Error("conflict")
CreateThreeWayMergePatch(original, modified, current, overwrite) ==
    mergeDeltaIntoDeletions(diffMaps(current, modified, "Doc", FALSE, TRUE),
                            diffMaps(original, modified, "Doc", TRUE, FALSE),
                            original, modified, current, overwrite)

(* ---- the queue ---- *)
\* the queue after NewNamedPriority
QueueInit ==
    /\ priorityQueue = [k \in Keys |-> <<>>]
    /\ dirty = {}
    /\ processing = {}
    /\ shuttingDown = FALSE
    /\ drain = FALSE
    /\ waiters = {}
    /\ pc = [p \in Procs |-> IF p \in Consumers THEN "get" ELSE "idle"]
    /\ held = [c \in Consumers |-> nil]
    /\ added = {}
    /\ addedLive = {}
    /\ bcastWoken = {}
    /\ sdAfter = {}
    /\ existing = [d \in Drainers |-> {}]
    /\ redo = [d \in Drainers |-> [x \in Items |-> 0]]

\* no call of the patch engine is made
PatchIdle ==
    /\ originalDoc = EmptyMap
    /\ modifiedDoc = EmptyMap
    /\ currentDoc = EmptyMap
    /\ patchDoc = EmptyMap
    /\ resultDoc = Null
    /\ rangeOrder = TRUE
    /\ call = "idle"

Init == QueueInit /\ PatchIdle

\* the items the queue holds: queued in a bucket or being processed
Existing(q, proc) == InBuckets(q, Keys) \cup proc

(* ---- Add ---- *)
AddNeverDropped == FALSE
AddDropped == shuttingDown
AddNeverDuplicate(item) == FALSE
AddIsDuplicate(item) == item \in dirty
AddDefersNever(item) == FALSE
AddDefers(item) == item \in processing
AddPriority(v) == clipInt(v, minPriority, maxPriority)
\* q.priorityQueue[priority] = append(q.priorityQueue[priority], item)
AddPrepends(s, item) == <<item>> \o s
AddEnqueue(s, item) == Append(s, item)

Add(item) ==
    /\ added' = added \cup {item}
    /\ addedLive' = IF shuttingDown THEN addedLive ELSE addedLive \cup {item}
    /\ UNCHANGED <<shuttingDown, drain, held, bcastWoken, sdAfter>>
    /\ IF AddDropped \/ AddIsDuplicate(item)
         THEN UNCHANGED <<priorityQueue, dirty, processing, waiters, pc>>
         ELSE /\ dirty' = dirty \cup {item}
              /\ UNCHANGED processing
              /\ IF AddDefers(item)
                   THEN UNCHANGED <<priorityQueue, waiters, pc>>
                   ELSE \E v \in getPriorityFunc(item), W \in CondSignal :
                          LET priority == AddPriority(v) IN
                          /\ priorityQueue' = [priorityQueue EXCEPT
                                                 ![priority] = AddEnqueue(@, item)]
                          /\ waiters' = waiters \ W
                          /\ pc' = Wake(pc, W)

(* ---- Get ---- *)
\* the bucket Get takes from: the scan from maxPriority down to minPriority
currentPriority ==
    IF \E i \in Levels : Len(priorityQueue[i]) > 0
      THEN CHOOSE i \in Levels :
             /\ Len(priorityQueue[i]) > 0
             /\ \A j \in Levels : j > i => Len(priorityQueue[j]) = 0
      ELSE maxPriority + 1

\* the loop condition of Get, and the test after the loop
GetWaits == lenNoLock = 0 /\ ~shuttingDown
GetQuitsOnShutdown == lenNoLock = 0 \/ shuttingDown
GetQuits == lenNoLock = 0

\* pc "get": in Get, about to evaluate its loop (a fresh call, or back from
\* cond.Wait); pc "stopped": the last Get returned (nil, true), and the caller
\* may call Get again
Get(c) ==
    /\ pc[c] \in {"get", "stopped"}
    /\ UNCHANGED <<shuttingDown, drain, added, addedLive, sdAfter>>
    /\ IF GetWaits
         THEN \* q.cond.Wait()
              /\ waiters' = waiters \cup {c}
              /\ pc' = [pc EXCEPT ![c] = "waiting"]
              /\ UNCHANGED <<priorityQueue, dirty, processing, held, bcastWoken>>
         ELSE IF GetQuits
         THEN \* return nil, true
              /\ pc' = [pc EXCEPT ![c] = "stopped"]
              /\ bcastWoken' = bcastWoken \ {c}
              /\ UNCHANGED <<priorityQueue, dirty, processing, held, waiters>>
         ELSE LET item == Head(priorityQueue[currentPriority]) IN
              /\ priorityQueue' = [priorityQueue EXCEPT ![currentPriority] = Tail(@)]
              /\ processing' = processing \cup {item}
              /\ dirty' = dirty \ {item}
              /\ held' = [held EXCEPT ![c] = item]
              /\ pc' = [pc EXCEPT ![c] = "holding"]
              /\ bcastWoken' = bcastWoken \ {c}
              /\ UNCHANGED waiters

(* ---- Done ---- *)
DonePriority(v) == v
DoneRequeueWakes == CondSignal
DoneEmptyWakes == CondSignal

\* the body of Done(item), leaving pc of the woken goroutines in f
DoneBody(item, f) ==
    /\ processing' = processing \ {item}
    /\ UNCHANGED dirty
    /\ IF item \in dirty
         THEN \E v \in getPriorityFunc(item), W \in DoneRequeueWakes :
                LET priority == DonePriority(v) IN
                /\ priorityQueue' = [priorityQueue EXCEPT ![priority] = Append(@, item)]
                /\ waiters' = waiters \ W
                /\ pc' = Wake(f, W)
         ELSE IF processing' = {}
         THEN \E W \in DoneEmptyWakes :
                /\ waiters' = waiters \ W
                /\ pc' = Wake(f, W)
                /\ UNCHANGED priorityQueue
         ELSE /\ pc' = f
              /\ UNCHANGED <<priorityQueue, waiters>>

\* a consumer calls Done on the item it got
Done(c) ==
    /\ pc[c] = "holding"
    /\ DoneBody(held[c], [pc EXCEPT ![c] = "get"])
    /\ held' = [held EXCEPT ![c] = nil]
    /\ UNCHANGED <<shuttingDown, drain, added, addedLive, bcastWoken, sdAfter>>

(* ---- setDrain, shutdown, shouldDrain, isProcessing ---- *)
ShutdownSignals == CondSignal
ShutdownWakes == CondBroadcast

\* the body of shutdown(), leaving pc of the woken goroutines in f
shutdown(f) ==
    /\ shuttingDown' = TRUE
    /\ \E W \in ShutdownWakes :
         /\ waiters' = waiters \ W
         /\ pc' = Wake(f, W)

isProcessingQueue == lenNoLock # 0
isProcessing == processing # {}
shouldDrain == drain

(* ---- ShutDown ---- *)
\* q.setDrain(false)
ShutDownSetDrain(s) ==
    /\ pc[s] = "idle"
    /\ drain' = FALSE
    /\ pc' = [pc EXCEPT ![s] = "shutdown"]
    /\ sdAfter' = sdAfter \cup {d \in Drainers : pc[d] \notin {"idle", "done"}}
    /\ UNCHANGED <<priorityQueue, dirty, processing, shuttingDown, waiters, held,
                   added, addedLive, bcastWoken>>

\* q.shutdown()
ShutDownShutdown(s) ==
    /\ pc[s] = "shutdown"
    /\ shutdown([pc EXCEPT ![s] = "done"])
    /\ bcastWoken' = bcastWoken \cup {c \in Consumers : pc[c] = "waiting" /\ pc'[c] # "waiting"}
    /\ UNCHANGED <<priorityQueue, dirty, processing, drain, held,
                   added, addedLive, sdAfter>>

(* ---- ShutDownWithDrain ---- *)
\* q.setDrain(true)
DrainSetDrain(d) ==
    /\ pc[d] = "idle"
    /\ drain' = TRUE
    /\ pc' = [pc EXCEPT ![d] = "shutdown"]
    /\ UNCHANGED <<priorityQueue, dirty, processing, shuttingDown, waiters, held,
                   added, addedLive, bcastWoken, sdAfter>>

\* q.shutdown()
DrainShutdown(d) ==
    /\ pc[d] = "shutdown"
    /\ shutdown([pc EXCEPT ![d] = "isProcessing"])
    /\ UNCHANGED <<priorityQueue, dirty, processing, drain, held,
                   added, addedLive, bcastWoken, sdAfter>>

\* ShutDownWithDrain returns
Return(d) == pc' = [pc EXCEPT ![d] = "done"]

\* the first operand of the loop condition: q.isProcessing()
DrainIsProcessing(d) ==
    /\ pc[d] = "isProcessing"
    /\ IF isProcessing
         THEN pc' = [pc EXCEPT ![d] = "shouldDrain"]
         ELSE Return(d)
    /\ UNCHANGED <<priorityQueue, dirty, processing, shuttingDown, drain, waiters, held,
                   added, addedLive, bcastWoken, sdAfter>>

\* the second operand of the loop condition: q.shouldDrain()
DrainShouldDrain(d) ==
    /\ pc[d] = "shouldDrain"
    /\ IF shouldDrain
         THEN pc' = [pc EXCEPT ![d] = "waitForProcessing"]
         ELSE Return(d)
    /\ UNCHANGED <<priorityQueue, dirty, processing, shuttingDown, drain, waiters, held,
                   added, addedLive, bcastWoken, sdAfter>>

\* the loop body: q.waitForProcessing()
DrainWaitForProcessing(d) ==
    /\ pc[d] = "waitForProcessing"
    /\ IF processing = {}
         THEN pc' = [pc EXCEPT ![d] = "isProcessing"] /\ UNCHANGED waiters
         ELSE \* q.cond.Wait()
              /\ waiters' = waiters \cup {d}
              /\ pc' = [pc EXCEPT ![d] = "waiting"]
    /\ UNCHANGED <<priorityQueue, dirty, processing, shuttingDown, drain, held,
                   added, addedLive, bcastWoken, sdAfter>>

\* Spec leaves the history variable existing alone; SnapSpec records in it, for
\* each ShutDownWithDrain call in progress, the items the queue held at the call
Snapshot ==
    [d \in Drainers |->
       IF pc[d] = "idle" /\ pc'[d] # "idle" THEN Existing(priorityQueue, processing)
       ELSE IF pc'[d] = "done" THEN {}
       ELSE existing[d]]

\* RedoSpec records in redo, for each ShutDownWithDrain call in progress,
\* the items that were in processing and dirty at the call: 2 until the first
\* Done on the item (made after shutdown() has run), then 1 until the second
Redo ==
    [d \in Drainers |->
       IF pc[d] = "idle" /\ pc'[d] # "idle"
         THEN [x \in Items |-> IF x \in dirty \cap processing THEN 2 ELSE 0]
       ELSE IF pc'[d] = "done" THEN [x \in Items |-> 0]
       ELSE [x \in Items |->
               IF redo[d][x] > 0 /\ \E c \in Consumers : pc[c] = "holding"
                                                        /\ pc'[c] # "holding"
                                                        /\ held[c] = x
                 THEN IF shuttingDown THEN redo[d][x] - 1 ELSE 0
                 ELSE redo[d][x]]]

RecordExisting == existing' = Snapshot /\ UNCHANGED <<redo, patchVars>>
RecordRedo == redo' = Redo /\ UNCHANGED <<existing, patchVars>>

Next ==
    \/ \E item \in Items : Add(item) /\ UNCHANGED <<hist, patchVars>>
    \/ \E c \in Consumers : Get(c) /\ UNCHANGED <<hist, patchVars>>
    \/ \E c \in Consumers : Done(c) /\ UNCHANGED <<hist, patchVars>>
    \/ \E s \in Shutters : ShutDownSetDrain(s) /\ UNCHANGED <<hist, patchVars>>
    \/ \E s \in Shutters : ShutDownShutdown(s) /\ UNCHANGED <<hist, patchVars>>
    \/ \E d \in Drainers : DrainSetDrain(d) /\ UNCHANGED <<hist, patchVars>>
    \/ \E d \in Drainers : DrainShutdown(d) /\ UNCHANGED <<hist, patchVars>>
    \/ \E d \in Drainers : DrainIsProcessing(d) /\ UNCHANGED <<hist, patchVars>>
    \/ \E d \in Drainers : DrainShouldDrain(d) /\ UNCHANGED <<hist, patchVars>>
    \/ \E d \in Drainers : DrainWaitForProcessing(d) /\ UNCHANGED <<hist, patchVars>>

Spec == Init /\ [][Next]_vars

SnapNext ==
    \/ \E item \in Items : Add(item) /\ RecordExisting
    \/ \E c \in Consumers : Get(c) /\ RecordExisting
    \/ \E c \in Consumers : Done(c) /\ RecordExisting
    \/ \E s \in Shutters : ShutDownSetDrain(s) /\ RecordExisting
    \/ \E s \in Shutters : ShutDownShutdown(s) /\ RecordExisting
    \/ \E d \in Drainers : DrainSetDrain(d) /\ RecordExisting
    \/ \E d \in Drainers : DrainShutdown(d) /\ RecordExisting
    \/ \E d \in Drainers : DrainIsProcessing(d) /\ RecordExisting
    \/ \E d \in Drainers : DrainShouldDrain(d) /\ RecordExisting
    \/ \E d \in Drainers : DrainWaitForProcessing(d) /\ RecordExisting

SnapSpec == Init /\ [][SnapNext]_vars

RedoNext ==
    \/ \E item \in Items : Add(item) /\ RecordRedo
    \/ \E c \in Consumers : Get(c) /\ RecordRedo
    \/ \E c \in Consumers : Done(c) /\ RecordRedo
    \/ \E s \in Shutters : ShutDownSetDrain(s) /\ RecordRedo
    \/ \E s \in Shutters : ShutDownShutdown(s) /\ RecordRedo
    \/ \E d \in Drainers : DrainSetDrain(d) /\ RecordRedo
    \/ \E d \in Drainers : DrainShutdown(d) /\ RecordRedo
    \/ \E d \in Drainers : DrainIsProcessing(d) /\ RecordRedo
    \/ \E d \in Drainers : DrainShouldDrain(d) /\ RecordRedo
    \/ \E d \in Drainers : DrainWaitForProcessing(d) /\ RecordRedo

RedoSpec == Init /\ [][RedoNext]_vars

\* A goroutine that has entered ShutDown or ShutDownWithDrain keeps running: the
\* Go scheduler runs every goroutine that is not parked.  Nothing obliges a
\* caller to call Add, Get, Done, ShutDown or ShutDownWithDrain at all.
DrainerRuns(d) ==
    /\ \/ DrainShutdown(d)
       \/ DrainIsProcessing(d)
       \/ DrainShouldDrain(d)
       \/ DrainWaitForProcessing(d)
    /\ UNCHANGED <<hist, patchVars>>

ShutterRuns(s) == ShutDownShutdown(s) /\ UNCHANGED <<hist, patchVars>>

FairSpec ==
    /\ Spec
    /\ \A d \in Drainers : WF_vars(DrainerRuns(d))
    /\ \A s \in Shutters : WF_vars(ShutterRuns(s))

\* Done(item) by a caller that does not hold the item: the item is not in
\* processing (a second Done, or a Done without a Get).  The calls stop when
\* the buckets hold MaxQueued entries.
MaxQueued == 3
DoneUnheld(item) ==
    /\ item \notin processing
    /\ SumLen(priorityQueue, Keys) < MaxQueued
    /\ DoneBody(item, pc)
    /\ UNCHANGED <<shuttingDown, drain, held, added, addedLive, bcastWoken, sdAfter>>

\* the queue with callers of Add, Get, Done and ShutDown that also call Done
\* on items they do not hold
MisuseNext ==
    \/ \E item \in Items : Add(item) /\ UNCHANGED <<hist, patchVars>>
    \/ \E c \in Consumers : Get(c) /\ UNCHANGED <<hist, patchVars>>
    \/ \E c \in Consumers : Done(c) /\ UNCHANGED <<hist, patchVars>>
    \/ \E item \in Items : DoneUnheld(item) /\ UNCHANGED <<hist, patchVars>>
    \/ \E s \in Shutters : ShutDownSetDrain(s) /\ UNCHANGED <<hist, patchVars>>
    \/ \E s \in Shutters : ShutDownShutdown(s) /\ UNCHANGED <<hist, patchVars>>

MisuseSpec == Init /\ [][MisuseNext]_vars

(***************************************************************************)
(* The patch engine as a state machine: the initial state holds the        *)
(* arguments of one call, an action is one call of an entry point and      *)
(* records what it returns.                                                *)
(***************************************************************************)
\* the longest list in a document
MaxListLen == 2

\* the numbers in the documents: as strings, 10 sorts before 2
Scalars == {Num(2), Num(10)}

\* all sequences over S of length at most n
RECURSIVE SeqsUpTo(_, _)
SeqsUpTo(S, n) ==
    IF n = 0 THEN {<<>>}
    ELSE LET shorter == SeqsUpTo(S, n - 1)
         IN  shorter \cup {Append(s, x) : s \in {r \in shorter : Len(r) = n - 1}, x \in S}

\* all JSON objects that give each key k of a subset of DOMAIN V a value of V[k]
RECURSIVE ObjectsOver(_, _)
ObjectsOver(V, K) ==
    IF K = {} THEN {EmptyMap}
    ELSE LET k == CHOOSE j \in K : TRUE
             rest == ObjectsOver(V, K \ {k})
         IN  rest \cup {Put(m, k, x) : m \in rest, x \in V[k]}
Objects(V) == ObjectsOver(V, DOMAIN V)

\* objects of the struct Container, and those with a name: the elements of a
\* list
Containers == Objects([name |-> Scalars, image |-> {Num(2)}])
ContainerElements == {c \in Containers : Has(c, "name")}

\* the lists of scalars in the documents
ScalarLists == {Slice(s) : s \in SeqsUpTo(Scalars, MaxListLen)}

\* the documents of the struct Doc, by the fields they use
FlatDocs == Objects([replicas |-> Scalars \cup {Null}, paused |-> Scalars])
FinalizersDocs == Objects([finalizers |-> ScalarLists])
ArgsDocs == Objects([args |-> ScalarLists])
ContainersDocs(n) == Objects([containers |-> {Slice(s) : s \in SeqsUpTo(ContainerElements, n)}])
ObjectDocs == Objects([template |-> Containers]) \cup Objects([selector |-> Containers])

Docs == FlatDocs \cup FinalizersDocs \cup ArgsDocs \cup ContainersDocs(MaxListLen)
          \cup ObjectDocs

\* the three documents of a three-way call come from one of these sets
ThreeWayDocs ==
    {FlatDocs, FinalizersDocs, ArgsDocs, ContainersDocs(MaxListLen - 1), ObjectDocs}

\* patches written by hand: null values, $patch directives and parallel
\* deletion lists
FlatPatches ==
    Objects(("replicas" :> (Scalars \cup {Null})) @@ ("paused" :> (Scalars \cup {Null}))
              @@ (directiveMarker :> {String(replaceDirective), String(deleteDirective),
                                      String(mergeDirective)}))
ListPatches ==
    Objects(("finalizers" :> ScalarLists)
              @@ ("$deleteFromPrimitiveList/finalizers" :> ScalarLists))

PatchInit ==
    /\ QueueInit
    /\ rangeOrder \in BOOLEAN
    /\ resultDoc = Null
    /\ call = "input"
    /\ \/ /\ originalDoc \in Docs
          /\ modifiedDoc \in Docs
          /\ currentDoc = EmptyMap
          /\ patchDoc = EmptyMap
       \/ \E D \in ThreeWayDocs :
            /\ originalDoc \in D
            /\ modifiedDoc \in D
            /\ currentDoc \in D
            /\ patchDoc = EmptyMap
       \/ /\ originalDoc \in Docs
          /\ patchDoc \in FlatPatches
          /\ modifiedDoc = EmptyMap
          /\ currentDoc = EmptyMap
       \/ /\ originalDoc \in FinalizersDocs
          /\ patchDoc \in ListPatches
          /\ modifiedDoc = EmptyMap
          /\ currentDoc = EmptyMap

\* patch := CreateTwoWayMergePatch(original, modified, dataStruct)
CallCreateTwoWayMergePatch ==
    /\ call = "input"
    /\ patchDoc' = CreateTwoWayMergePatch(originalDoc, modifiedDoc)
    /\ call' = "CreateTwoWayMergePatch"
    /\ UNCHANGED <<originalDoc, modifiedDoc, currentDoc, resultDoc, rangeOrder>>

\* patch := CreateTwoWayMergeMapPatch(original, modified, dataStruct), on the
\* maps of the caller: diffLists sorts their merge lists of scalars in place
CallCreateTwoWayMergeMapPatch ==
    /\ call = "input"
    /\ patchDoc' = CreateTwoWayMergeMapPatch(originalDoc, modifiedDoc)
    /\ originalDoc' = originalSortedBy(originalDoc, modifiedDoc)
    /\ modifiedDoc' = modifiedSortedBy(originalDoc, modifiedDoc)
    /\ call' = "CreateTwoWayMergeMapPatch"
    /\ UNCHANGED <<currentDoc, resultDoc, rangeOrder>>

\* result := StrategicMergePatch(original, patch, dataStruct), with the patch
\* given or the patch the two-way call has created
CallStrategicMergePatch ==
    /\ call \in {"input", "CreateTwoWayMergePatch"}
    /\ ~Failed(patchDoc)
    /\ resultDoc' = StrategicMergePatch(originalDoc, patchDoc)
    /\ call' = IF call = "input" THEN "StrategicMergePatch" ELSE "RoundTrip"
    /\ UNCHANGED <<originalDoc, modifiedDoc, currentDoc, patchDoc, rangeOrder>>

\* patch := CreateThreeWayMergePatch(original, modified, current, dataStruct, overwrite)
CallCreateThreeWayMergePatch(overwrite) ==
    /\ call = "input"
    /\ patchDoc' = CreateThreeWayMergePatch(originalDoc, modifiedDoc, currentDoc, overwrite)
    /\ call' = IF overwrite THEN "CreateThreeWayMergePatchOverwrite"
               ELSE "CreateThreeWayMergePatch"
    /\ UNCHANGED <<originalDoc, modifiedDoc, currentDoc, resultDoc, rangeOrder>>

\* result := MergingMapsHaveConflicts(left, right, dataStruct), original and
\* modified being left and right
CallMergingMapsHaveConflicts ==
    /\ call = "input"
    /\ resultDoc' = MergingMapsHaveConflicts(originalDoc, modifiedDoc)
    /\ call' = "MergingMapsHaveConflicts"
    /\ UNCHANGED <<originalDoc, modifiedDoc, currentDoc, patchDoc, rangeOrder>>

PatchNext ==
    \/ CallCreateTwoWayMergePatch /\ UNCHANGED queueVars
    \/ CallCreateTwoWayMergeMapPatch /\ UNCHANGED queueVars
    \/ CallStrategicMergePatch /\ UNCHANGED queueVars
    \/ \E overwrite \in BOOLEAN :
         CallCreateThreeWayMergePatch(overwrite) /\ UNCHANGED queueVars
    \/ CallMergingMapsHaveConflicts /\ UNCHANGED queueVars

PatchSpec == PatchInit /\ [][PatchNext]_vars

(***************************************************************************)
(* Properties of the queue                                                 *)
(***************************************************************************)

Holders(item) == {c \in Consumers : held[c] = item}

\* how often item occurs in the buckets with the given keys
Occurrences(q, S, item) ==
    Cardinality({<<k, i>> \in S \X (1..NumItems + 2) :
                   i <= Len(q[k]) /\ q[k][i] = item})

\* C1: an item is never held by two consumers at once (between the Get that
\* returned it and the Done on it no other Get returns it), and every item a
\* consumer got from Get was passed to Add before.
C1_HeldByOneAndAdded ==
    \A item \in Items :
        /\ Cardinality(Holders(item)) <= 1
        /\ Holders(item) # {} => item \in added

\* C1 witness: two consumers hold items at once, and one of the items was
\* added again while it is being processed.
C1_Witness ==
    \E c1, c2 \in Consumers :
        /\ c1 # c2
        /\ held[c1] # nil
        /\ held[c2] # nil
        /\ held[c1] \in dirty

GetReturns(c) == pc[c] \in {"get", "stopped"} /\ pc'[c] \in {"holding", "stopped"}
DoneCalled(c) == pc[c] = "holding" /\ pc'[c] # "holding"
DrainReturns(d) == pc[d] # "done" /\ pc'[d] = "done"
NoShutDownCall == \A s \in Shutters : pc[s] = "idle"

\* C2: when Done is called on an item that was added again while it was being
\* processed, the item is queued exactly once where Get finds it (a bucket of
\* minPriority..maxPriority), whatever the priority function returns.
C2_RequeuedOnce ==
    [][\A c \in Consumers :
         (DoneCalled(c) /\ held[c] \in dirty)
           => Occurrences(priorityQueue', Levels, held[c]) = 1]_vars

\* C3: a ShutDownWithDrain call that had started when ShutDown was invoked
\* eventually returns, whether or not Done is ever called.
C3_ForcedReturn == \A d \in Drainers : (d \in sdAfter) ~> (pc[d] = "done")

\* C4: when no ShutDown call is made, ShutDownWithDrain returns only when the
\* processing set is empty: no item returned by Get is still waiting for Done.
C4_ReturnsWhenProcessed ==
    [][\A d \in Drainers :
         (DrainReturns(d) /\ NoShutDownCall)
           => /\ processing = {}
              /\ \A c \in Consumers : held[c] = nil]_vars

\* C4 witness: a ShutDownWithDrain call has returned without any ShutDown call,
\* after items were added and while the other ShutDownWithDrain call still runs.
C4_Witness ==
    /\ NoShutDownCall
    /\ addedLive # {}
    /\ \E d1, d2 \in Drainers : pc[d1] = "done" /\ pc[d2] \notin {"idle", "done"}

\* C5: when a Done call leaves the processing set empty, every caller blocked
\* in ShutDownWithDrain is unblocked.
C5_DoneUnblocksAll ==
    [][\A c \in Consumers :
         (DoneCalled(c) /\ processing' = {})
           => \A d \in Drainers : pc'[d] # "waiting"]_vars

\* C6: when ShutDownWithDrain returns (no ShutDown call made), no item that was
\* queued or in processing when it was called is still in a bucket or in the
\* processing set.
C6_ExistingItemsFinished ==
    [][\A d \in Drainers :
         (DrainReturns(d) /\ NoShutDownCall)
           => existing[d] \cap Existing(priorityQueue, processing) = {}]_vars

\* C7: every Get that returns an item returns the head of a bucket, and no
\* bucket of higher priority holds any item at that moment.
C7_HighestBucketFirst ==
    [][\A c \in Consumers :
         (GetReturns(c) /\ pc'[c] = "holding")
           => \E k \in Keys :
                /\ priorityQueue[k] # <<>>
                /\ held'[c] = Head(priorityQueue[k])
                /\ priorityQueue' = [priorityQueue EXCEPT ![k] = Tail(@)]
                /\ \A j \in Keys : j > k => priorityQueue[j] = <<>>]_vars

\* C8: Add(x) of an item already in dirty changes nothing: the buckets, dirty,
\* processing and Len are as before, and x, unless it is being processed, is
\* queued exactly once.
C8_AddIdempotent ==
    [][\A item \in Items :
         (Add(item) /\ item \in dirty)
           => /\ UNCHANGED <<priorityQueue, dirty, processing>>
              /\ lenNoLock' = lenNoLock
              /\ item \notin processing
                   => Occurrences(priorityQueue', Levels, item) = 1]_vars

\* C8 witness: both kinds of pending item at once, each a state in which a
\* further Add is the duplicate the claim is about: one queued in a bucket, one
\* added again while it is being processed.
C8_Witness ==
    \E x, y \in Items :
        /\ x \in dirty \cap processing
        /\ y \in dirty \ processing
        /\ Occurrences(priorityQueue, Levels, y) = 1
        /\ lenNoLock = 1

\* C9: once shuttingDown is set every Add is dropped (buckets, dirty,
\* processing and Len unchanged), and Get never returns an item that was only
\* added after the shutdown.
C9_AddDroppedAfterShutdown ==
    /\ [][\A item \in Items :
            (Add(item) /\ shuttingDown)
              => /\ UNCHANGED <<priorityQueue, dirty, processing>>
                 /\ lenNoLock' = lenNoLock]_vars
    /\ [](\A c \in Consumers : held[c] # nil => held[c] \in addedLive)

\* C9 witness: the queue is shutting down, an item was passed to Add only after
\* the shutdown, and a consumer still got another item from Get.
C9_Witness ==
    /\ shuttingDown
    /\ added \ addedLive # {}
    /\ \E c \in Consumers : held[c] # nil

FreshGetReturns(c) == pc[c] = "stopped" /\ pc'[c] \in {"holding", "stopped"}

AllStopped == \A c \in Consumers : pc[c] = "stopped"

\* C13: once the queue has been shut down and every consumer has been told so
\* by Get, Len() is 0, in every later state in which the consumers stay
\* stopped, whatever was added or re-added before the shutdown.
C13_LenZeroWhenAllStopped ==
    AllStopped => /\ shuttingDown
                  /\ lenNoLock = 0
                  /\ \A c \in Consumers : held[c] = nil

\* C13 witness: every consumer has stopped after both items were added before
\* the shutdown, and a Done re-added an item into a bucket that Len does not
\* count.
C13_Witness ==
    /\ AllStopped
    /\ addedLive = Items
    /\ InBuckets(priorityQueue, Keys \ Levels) # {}

\* x sits before y in bucket k
Before(q, k, x, y) ==
    \E i, j \in 1..Len(q[k]) : i < j /\ q[k][i] = x /\ q[k][j] = y

\* C14: within one bucket Get returns the items in the order of their most
\* recent enqueue: an item enqueued by Add or by Done goes behind every item
\* the bucket holds, the items that stay keep their order, an item leaves a
\* bucket only as the result of a Get, and it never leaves while an item
\* enqueued before it is still in the bucket.
C14_BucketFifo ==
    [][\A k \in Keys : \A x \in Range(priorityQueue[k]) :
         /\ \A y \in Range(priorityQueue'[k]) \ {x} :
               (x \in Range(priorityQueue'[k]) /\ ~Before(priorityQueue, k, y, x))
                 => Before(priorityQueue', k, x, y)
         /\ \A y \in Items :
               Before(priorityQueue, k, x, y) => y \in Range(priorityQueue'[k])
         /\ x \notin Range(priorityQueue'[k])
               => \E c \in Consumers : GetReturns(c) /\ held'[c] = x]_vars

\* C14 witness: a bucket that Get reads holds two items in the opposite of
\* their numeric order, the queue is shut down, and a consumer is about to
\* call Get.
C14_Witness ==
    /\ \E k \in Levels :
         /\ Len(priorityQueue[k]) = 2
         /\ priorityQueue[k][1] > priorityQueue[k][2]
    /\ shuttingDown
    /\ \E c \in Consumers : pc[c] = "get"

\* C12: an item that was added again while in processing before a
\* ShutDownWithDrain call started is put back on the queue by the Done made on
\* it after the drain has begun, a Get made while it is queued again reports
\* shutdown = false, and ShutDownWithDrain does not return before the item
\* has been Done a second time (no ShutDown call being made).
C12_DirtyItemDrained ==
    [][\A d \in Drainers :
         /\ \A c \in Consumers :
               (DoneCalled(c) /\ shuttingDown /\ redo[d][held[c]] = 2)
                 => Occurrences(priorityQueue', Levels, held[c]) = 1
         /\ \A c \in Consumers :
               (GetReturns(c) /\ \E x \in InBuckets(priorityQueue, Keys) :
                                     redo[d][x] = 1)
                 => pc'[c] = "holding"
         /\ (DrainReturns(d) /\ NoShutDownCall)
               => \A x \in Items : redo[d][x] = 0]_vars

(***************************************************************************)
(* Properties of the patch engine                                          *)
(***************************************************************************)
\* two documents of the struct Doc are the same, the order of the elements of
\* a merge-strategy list left aside
SameDocument(x, y) ==
    LET Count(s, e) == Cardinality({i \in 1..Len(s) : DeepEqual(s[i], e)})
        SameElements(s1, s2) ==
            /\ Len(s1) = Len(s2)
            /\ \A i \in 1..Len(s1) : Count(s1, s1[i]) = Count(s2, s1[i])
    IN  /\ x.t = "map"
        /\ y.t = "map"
        /\ DOMAIN x.v = DOMAIN y.v
        /\ \A k \in DOMAIN x.v :
             IF /\ LookupPatchMetadata("Doc", k).fieldPatchStrategy = mergeDirective
                /\ x.v[k].t = "slice"
                /\ y.v[k].t = "slice"
               THEN SameElements(x.v[k].v, y.v[k].v)
               ELSE DeepEqual(x.v[k], y.v[k])

\* C15: applying the patch that CreateTwoWayMergePatch made of original and
\* modified to original yields modified, merge-strategy lists compared
\* without regard to the order of their elements.
C15_RoundTrip == call = "RoundTrip" => SameDocument(resultDoc, modifiedDoc)

\* C16, as the spec states it: the two-way patch of a document against itself
\* is the empty patch.
C16_SelfDiffEmpty ==
    (call = "CreateTwoWayMergePatch" /\ DeepEqual(originalDoc, modifiedDoc))
      => DeepEqual(patchDoc, EmptyMap)

\* C16, amended: the two-way patch of a document against itself holds exactly
\* the object-valued fields whose patch strategy is replace, each with its
\* value; it is the empty patch when the document has no such field.
C16_SelfDiffHoldsReplaceObjects ==
    (call = "CreateTwoWayMergePatch" /\ DeepEqual(originalDoc, modifiedDoc))
      => LET replaced == {k \in DOMAIN originalDoc.v :
                            /\ originalDoc.v[k].t = "map"
                            /\ LookupPatchMetadata("Doc", k).fieldPatchStrategy
                                 = replaceDirective}
         IN  DeepEqual(patchDoc, Map([k \in replaced |-> originalDoc.v[k]]))

\* C16 witness: a document with a merge list of two objects has been diffed
\* against itself.
C16_Witness ==
    /\ call = "CreateTwoWayMergePatch"
    /\ DeepEqual(originalDoc, modifiedDoc)
    /\ Has(originalDoc, "containers")
    /\ Len(originalDoc.v["containers"].v) = 2
    /\ DeepEqual(patchDoc, EmptyMap)

\* C17, as the spec states it: with modified equal to original and
\* overwrite=true, the three-way patch is the empty patch for every current.
C17_ThreeWayIdentityEmpty ==
    (call = "CreateThreeWayMergePatchOverwrite" /\ DeepEqual(originalDoc, modifiedDoc))
      => DeepEqual(patchDoc, EmptyMap)

\* C17, amended: with modified equal to original and overwrite=true, the
\* three-way patch is the additions and changes that lead from current to
\* modified: a scalar or null field of modified is in the patch, with its
\* value, exactly when current lacks it or holds another value, and the patch
\* has no other keys than modified.  It is the empty patch when current
\* equals modified and has no object field with patch strategy replace.
C17_ThreeWayIdentityIsDelta ==
    (call = "CreateThreeWayMergePatchOverwrite" /\ DeepEqual(originalDoc, modifiedDoc))
      => /\ ~Failed(patchDoc)
         /\ SameDocument(patchDoc, diffMaps(currentDoc, modifiedDoc, "Doc", FALSE, TRUE))
         /\ DOMAIN patchDoc.v \subseteq DOMAIN modifiedDoc.v
         /\ \A k \in DOMAIN modifiedDoc.v :
              modifiedDoc.v[k].t \in {"float64", "nil"}
                => /\ Has(patchDoc, k)
                      <=> (~Has(currentDoc, k)
                             \/ ~DeepEqual(currentDoc.v[k], modifiedDoc.v[k]))
                   /\ Has(patchDoc, k) => DeepEqual(patchDoc.v[k], modifiedDoc.v[k])
         /\ (/\ DeepEqual(currentDoc, modifiedDoc)
             /\ \A k \in DOMAIN modifiedDoc.v :
                  ~(/\ modifiedDoc.v[k].t = "map"
                    /\ LookupPatchMetadata("Doc", k).fieldPatchStrategy
                         = replaceDirective))
              => DeepEqual(patchDoc, EmptyMap)

\* C17 witness: modified equals original, current lacks the field replicas
\* that they have, and the three-way patch with overwrite=true sets it.
C17_Witness ==
    /\ call = "CreateThreeWayMergePatchOverwrite"
    /\ DeepEqual(originalDoc, modifiedDoc)
    /\ Has(modifiedDoc, "replicas")
    /\ ~Has(currentDoc, "replicas")
    /\ Has(patchDoc, "replicas")

C19_ConflictsSymmetric ==
    call = "MergingMapsHaveConflicts"
      => DeepEqual(resultDoc, MergingMapsHaveConflicts(modifiedDoc, originalDoc))

\* the top-level keys of the patch are field names: none is the $patch
\* directive and none names a parallel deletion list
PlainPatchKeys ==
    LET prefix == deleteFromPrimitiveListDirectivePrefix
    IN  \A k \in DOMAIN patchDoc.v :
          /\ k # directiveMarker
          /\ ~(Len(k) >= Len(prefix) /\ SubSeq(k, 1, Len(prefix)) = prefix)

\* the result of StrategicMergePatch, key by key: a key with a null patch
\* value is absent, a key absent from the patch is as in original, a key with
\* a non-null scalar patch value holds that value
KeyByKey ==
    \A k \in DOMAIN patchDoc.v \cup DOMAIN originalDoc.v \cup DOMAIN resultDoc.v :
        /\ (Has(patchDoc, k) /\ patchDoc.v[k].t = "nil") => ~Has(resultDoc, k)
        /\ ~Has(patchDoc, k)
             => /\ Has(resultDoc, k) <=> Has(originalDoc, k)
                /\ Has(originalDoc, k) => DeepEqual(resultDoc.v[k], originalDoc.v[k])
        /\ (Has(patchDoc, k) /\ patchDoc.v[k].t \in {"float64", "string", "bool"})
             => /\ Has(resultDoc, k)
                /\ DeepEqual(resultDoc.v[k], patchDoc.v[k])

\* C20 as stated: applying a patch with StrategicMergePatch follows the wire
\* semantics key by key: a key whose patch value is null is absent from the
\* result, a key absent from the patch keeps exactly its original presence
\* and value, and a key with a non-null scalar patch value takes the patch
\* value.
C20_WireSemantics ==
    (call \in {"StrategicMergePatch", "RoundTrip"} /\ ~Failed(resultDoc)) => KeyByKey

\* C20 amended: when no top-level key of the patch is the $patch directive or
\* a $deleteFromPrimitiveList/ deletion list, a successful StrategicMergePatch
\* follows the wire semantics key by key at the top level: a key whose patch
\* value is null is absent from the result, a key absent from the patch keeps
\* exactly its original presence and value, and a key with a non-null scalar
\* patch value takes the patch value.
C20_WireSemanticsOfPlainKeys ==
    (call \in {"StrategicMergePatch", "RoundTrip"} /\ ~Failed(resultDoc) /\ PlainPatchKeys)
      => KeyByKey

\* C20 witness: a patch without directives has deleted replicas, which
\* original held, by a null value, and has left paused, which it does not
\* name, in the result.
C20_Witness ==
    /\ call = "StrategicMergePatch"
    /\ PlainPatchKeys
    /\ Has(patchDoc, "replicas")
    /\ patchDoc.v["replicas"].t = "nil"
    /\ ~Has(patchDoc, "paused")
    /\ Has(originalDoc, "replicas")
    /\ Has(originalDoc, "paused")
    /\ ~Failed(resultDoc)
    /\ ~Has(resultDoc, "replicas")
    /\ Has(resultDoc, "paused")

\* the elements of the list under key k of document m, none when m has no k
ElementsAt(m, k) == IF Has(m, k) THEN {m.v[k].v[i] : i \in 1..Len(m.v[k].v)} ELSE {}

\* C21: for the merge-strategy list of scalars finalizers, the two-way patch
\* carries the elements of original that modified lacks under
\* $deleteFromPrimitiveList/finalizers and the elements of modified that
\* original lacks under finalizers, and applying the patch to original yields
\* a list with the elements of modified.
C21_ScalarListPatch ==
    (/\ call = "RoundTrip"
     /\ Has(originalDoc, "finalizers")
     /\ Has(modifiedDoc, "finalizers"))
      => /\ ~Failed(patchDoc)
         /\ ~Failed(resultDoc)
         /\ ElementsAt(patchDoc, "$deleteFromPrimitiveList/finalizers")
              = ElementsAt(originalDoc, "finalizers") \ ElementsAt(modifiedDoc, "finalizers")
         /\ ElementsAt(patchDoc, "finalizers")
              = ElementsAt(modifiedDoc, "finalizers") \ ElementsAt(originalDoc, "finalizers")
         /\ Has(resultDoc, "finalizers")
         /\ ElementsAt(resultDoc, "finalizers") = ElementsAt(modifiedDoc, "finalizers")

\* C22: CreateTwoWayMergeMapPatch(original, modified, S) leaves both input
\* maps unchanged, the order of the elements of their lists included.
C22_InputsUnchanged ==
    [][call' = "CreateTwoWayMergeMapPatch"
         => /\ DeepEqual(originalDoc', originalDoc)
            /\ DeepEqual(modifiedDoc', modifiedDoc)]_vars

C24_QueuedAtMostOnce ==
    \A item \in Items : Occurrences(priorityQueue, Keys, item) <= 1

\* C29: Done(x) called for an item x that is not in the processing set leaves
\* the buckets, the dirty set and the processing set unchanged.
C29_StrayDoneChangesNothing ==
    [][\A item \in Items :
         DoneUnheld(item) => UNCHANGED <<priorityQueue, dirty, processing>>]_vars

C26_QueuedWithinLevels ==
    /\ \A k \in Keys \ Levels : priorityQueue[k] = <<>>
    /\ lenNoLock = SumLen(priorityQueue, Keys)

\* every field of document m holds a number
FlatScalars(m) == \A k \in DOMAIN m.v : m.v[k].t = "float64"

C28_ReplaceListsConflict ==
    (/\ call = "MergingMapsHaveConflicts"
     /\ Has(originalDoc, "args")
     /\ Has(modifiedDoc, "args"))
      => LET left == originalDoc.v["args"].v
             right == modifiedDoc.v["args"].v
         IN  /\ resultDoc.t = "bool"
             /\ Len(left) # Len(right) => resultDoc.v
             /\ Len(left) = Len(right)
                  => (resultDoc.v <=> sortScalars(left) # sortScalars(right))

\* C30: applying a patch that holds $deleteFromPrimitiveList/finalizers with
\* deletion list D, and no entry for finalizers itself, never yields a result
\* whose field finalizers holds an element of D, whether or not the original
\* document has the field.
C30_DeletedElementsAbsent ==
    (/\ call = "StrategicMergePatch"
     /\ Has(patchDoc, "$deleteFromPrimitiveList/finalizers")
     /\ ~Has(patchDoc, "finalizers")
     /\ ~Failed(resultDoc))
      => ElementsAt(resultDoc, "finalizers")
           \cap ElementsAt(patchDoc, "$deleteFromPrimitiveList/finalizers") = {}
====
